---- MODULE Spec2Model ----
(***************************************************************************)
(* Adaptive-binning brightness model (src/model.py): AdaptiveBin and       *)
(* EnhancedBrightnessModel.  Python floats are modelled as exact rationals *)
(* <<numerator, denominator>> in lowest terms with a positive denominator; *)
(* IEEE-754 rounding is not modelled.  time.localtime is taken in UTC.     *)
(***************************************************************************)
EXTENDS Integers, Sequences, FiniteSets, TLC

VARIABLES
    ambient_bins,       \* self.ambient_bins: sequence of AdaptiveBin records
    last_predictions,   \* self.last_predictions: deque(maxlen=3) of floats
    args,               \* constructor arguments min_ambient, max_ambient, bin_count
    lastOp,             \* the last completed call, its arguments and its outcome
    remaining           \* number of further calls explored from this state

vars == <<ambient_bins, last_predictions, args, lastOp, remaining>>

----------------------------------------------------------------------------
(* Bounds of the model *)

\* number of calls explored after construction
MaxOps == 3
\* largest bin_count explored by the constructor
MaxBinCount == 3
\* AdaptiveBin.max_points as explored (the default of the code is 50)
MaxPoints == 2
\* number of calls explored by the specification of the smoothing window
MaxSmoothOps == 5
\* longest history explored by the specification of adapt_bins
MaxHistoryLen == 6

----------------------------------------------------------------------------
(* Exact arithmetic standing for Python floats *)

\* Python's None is the empty tuple, an optional record p is <<p>>, and a
\* raised exception is the 1-tuple of its name
None == <<>>
Some(x) == <<x>>
ZeroDivisionError == <<"ZeroDivisionError">>

Abs(x) == IF x < 0 THEN -x ELSE x

RECURSIVE GCD(_, _)
GCD(a, b) == IF b = 0 THEN a ELSE GCD(b, a % b)

Frac(n, d) ==
    LET g == GCD(Abs(n), Abs(d))
        s == IF d < 0 THEN -1 ELSE 1
    IN  <<(s * n) \div g, (s * d) \div g>>

Float(n) == <<n, 1>>
FAdd(a, b) ==
    LET g == GCD(a[2], b[2])
    IN  Frac(a[1] * (b[2] \div g) + b[1] * (a[2] \div g), (a[2] \div g) * b[2])
FNeg(a) == <<-a[1], a[2]>>
FSub(a, b) == FAdd(a, FNeg(b))
FMul(a, b) ==
    LET g1 == GCD(Abs(a[1]), b[2])
        g2 == GCD(Abs(b[1]), a[2])
    IN  Frac((a[1] \div g1) * (b[1] \div g2), (a[2] \div g2) * (b[2] \div g1))
\* true division: raises ZeroDivisionError on a zero divisor
FDiv(a, b) == IF b[1] = 0 THEN ZeroDivisionError ELSE FMul(a, Frac(b[2], b[1]))
FLt(a, b) == a[1] * b[2] < b[1] * a[2]
FLe(a, b) == a[1] * b[2] <= b[1] * a[2]
FMax(a, b) == IF FLt(a, b) THEN b ELSE a
FMin(a, b) == IF FLt(b, a) THEN b ELSE a

RECURSIVE FSum(_)
FSum(s) == IF s = <<>> THEN Float(0) ELSE FAdd(FSum(SubSeq(s, 1, Len(s) - 1)), s[Len(s)])

----------------------------------------------------------------------------
(* TimeFeatures *)

is_day(timestamp) ==
    LET hour == (timestamp \div 3600) % 24
    IN  6 <= hour /\ hour < 18

----------------------------------------------------------------------------
(* AdaptiveBin *)

WeightedDataPoint(brightness, weight, timestamp) ==
    [brightness |-> brightness, weight |-> weight, timestamp |-> timestamp]

AdaptiveBin(min_value, max_value) ==
    [min_value |-> min_value, max_value |-> max_value,
     points |-> <<>>, total_weight |-> Float(0)]

Weights(points) == [i \in 1..Len(points) |-> points[i].weight]

RemoveAt(s, i) == SubSeq(s, 1, i - 1) \o SubSeq(s, i + 1, Len(s))

\* a scan that moves on to a later point of the same weight
RECURSIVE MinWeightScanLast(_, _, _)
MinWeightScanLast(points, i, best) ==
    IF i > Len(points) THEN best
    ELSE IF FLe(points[i].weight, points[best].weight)
         THEN MinWeightScanLast(points, i + 1, i)
         ELSE MinWeightScanLast(points, i + 1, best)

\* the scan of update: index of the first point of minimum weight
RECURSIVE MinWeightScan(_, _, _)
MinWeightScan(points, i, best) ==
    IF i > Len(points) THEN best
    ELSE IF FLt(points[i].weight, points[best].weight)
         THEN MinWeightScan(points, i + 1, i)
         ELSE MinWeightScan(points, i + 1, best)

\* update evicting the oldest point whatever its weight
min_weight_idx_oldest(points) == 1

min_weight_idx(points) == MinWeightScan(points, 1, 1)

\* update that forgets to take the popped point's weight off total_weight
update_no_decrement(bin, brightness, weight, timestamp) ==
    LET appended == Append(bin.points, WeightedDataPoint(brightness, weight, timestamp))
        added    == FAdd(bin.total_weight, weight)
    IN  IF Len(appended) > MaxPoints
        THEN LET idx == min_weight_idx(appended)
             IN  [bin     |-> [bin EXCEPT !.points = RemoveAt(appended, idx),
                                          !.total_weight = added],
                  removed |-> Some(appended[idx]),
                  present |-> appended]
        ELSE [bin     |-> [bin EXCEPT !.points = appended, !.total_weight = added],
              removed |-> None,
              present |-> appended]

\* AdaptiveBin.update: the bin afterwards, and the point popped (None if none)
update(bin, brightness, weight, timestamp) ==
    LET appended == Append(bin.points, WeightedDataPoint(brightness, weight, timestamp))
        added    == FAdd(bin.total_weight, weight)
    IN  IF Len(appended) > MaxPoints
        THEN LET idx == min_weight_idx(appended)
             IN  [bin     |-> [bin EXCEPT !.points = RemoveAt(appended, idx),
                                          !.total_weight = FSub(added, appended[idx].weight)],
                  removed |-> Some(appended[idx]),
                  present |-> appended]
        ELSE [bin     |-> [bin EXCEPT !.points = appended, !.total_weight = added],
              removed |-> None,
              present |-> appended]

\* get_weighted_average without its test for an empty or weightless bin
get_weighted_average_unguarded(bin) ==
    FDiv(FSum([i \in 1..Len(bin.points) |->
                 FMul(Float(bin.points[i].brightness), bin.points[i].weight)]),
         bin.total_weight)

\* an average that ignores the weights
get_weighted_average_unweighted(bin) ==
    IF bin.points = <<>> \/ bin.total_weight = Float(0)
    THEN None
    ELSE FDiv(FSum([i \in 1..Len(bin.points) |-> Float(bin.points[i].brightness)]),
              Float(Len(bin.points)))

get_weighted_average(bin) ==
    IF bin.points = <<>> \/ bin.total_weight = Float(0)
    THEN None
    ELSE FDiv(FSum([i \in 1..Len(bin.points) |->
                      FMul(Float(bin.points[i].brightness), bin.points[i].weight)]),
              bin.total_weight)

\* cleanup dropping the points of age exactly max_age too
bin_cleanup_strict(bin, current_timestamp, max_age) ==
    LET kept == SelectSeq(bin.points, LAMBDA p : current_timestamp - p.timestamp < max_age)
    IN  [bin EXCEPT !.points = kept, !.total_weight = FSum(Weights(kept))]

bin_cleanup(bin, current_timestamp, max_age) ==
    LET kept == SelectSeq(bin.points, LAMBDA p : current_timestamp - p.timestamp <= max_age)
    IN  [bin EXCEPT !.points = kept, !.total_weight = FSum(Weights(kept))]

----------------------------------------------------------------------------
(* EnhancedBrightnessModel *)

DataPoint(timestamp, ambient_light, screen_brightness, is_manual_adjustment) ==
    [timestamp |-> timestamp, ambient_light |-> ambient_light,
     screen_brightness |-> screen_brightness,
     is_manual_adjustment |-> is_manual_adjustment]

max_age_seconds == 7 * 24 * 3600
time_weight == Frac(3, 10)
recency_weight == Frac(4, 10)
activity_weight == Frac(3, 10)

\* an __init__ that accepts min_ambient = max_ambient
InvalidArgsEqualAllowed(a) == a.bin_count <= 0 \/ a.min_ambient > a.max_ambient

\* __init__ raises ValueError for these arguments
InvalidArgs(a) == a.bin_count <= 0 \/ a.min_ambient >= a.max_ambient

\* __init__ without the special case of the last bin
InitialBinsEqualWidth(a) ==
    LET bin_size == (a.max_ambient - a.min_ambient) \div a.bin_count
    IN  [k \in 1..a.bin_count |->
            AdaptiveBin(a.min_ambient + (k - 1) * bin_size,
                        a.min_ambient + (k - 1) * bin_size + bin_size)]

\* the bins __init__ builds (i is the 0-based index of the code)
InitialBins(a) ==
    LET bin_size == (a.max_ambient - a.min_ambient) \div a.bin_count
    IN  [k \in 1..a.bin_count |->
            LET i == k - 1
                bin_min == a.min_ambient + i * bin_size
                bin_max == IF i = a.bin_count - 1 THEN a.max_ambient ELSE bin_min + bin_size
            IN  AdaptiveBin(bin_min, bin_max)]

\* the condition of the lookup loops of train and predict for the bin at index k
BinMatches(bins, k, x) ==
    \/ (bins[k].min_value <= x /\ x < bins[k].max_value)
    \/ (k = Len(bins) /\ x >= bins[k].min_value)

\* the lookup loop: index of the first matching bin, 0 when the loop finds none
RECURSIVE FindBinFrom(_, _, _)
FindBinFrom(bins, x, k) ==
    IF k > Len(bins) THEN 0
    ELSE IF BinMatches(bins, k, x) THEN k
    ELSE FindBinFrom(bins, x, k + 1)

find_bin(bins, x) == FindBinFrom(bins, x, 1)

\* an outlier test that looks at the brightness only
_is_outlier_brightness_only(new_point, last_point) ==
    IF last_point = None THEN FALSE
    ELSE Abs(new_point.screen_brightness - last_point[1].screen_brightness) > 80

_is_outlier(new_point, last_point) ==
    IF last_point = None THEN FALSE
    ELSE \/ Abs(new_point.screen_brightness - last_point[1].screen_brightness) > 80
         \/ Abs(new_point.ambient_light - last_point[1].ambient_light) > 1200

\* max(points, key=timestamp): the first point of the largest timestamp
RECURSIVE LatestScan(_, _, _)
LatestScan(points, i, best) ==
    IF i > Len(points) THEN points[best]
    ELSE IF points[i].timestamp > points[best].timestamp
         THEN LatestScan(points, i + 1, i)
         ELSE LatestScan(points, i + 1, best)

\* the loop of _find_last_point_in_bins from bin k on; info is None or the
\* reconstructed point found so far, latest the timestamp to beat
RECURSIVE LastPointScan(_, _, _, _)
LastPointScan(bins, k, latest, info) ==
    IF k > Len(bins) THEN info
    ELSE IF bins[k].points # <<>>
            /\ LatestScan(bins[k].points, 1, 1).timestamp > latest
         THEN LET p == LatestScan(bins[k].points, 1, 1)
              IN  LastPointScan(bins, k + 1, p.timestamp,
                     Some(DataPoint(p.timestamp,
                                    (bins[k].min_value + bins[k].max_value) \div 2,
                                    p.brightness, TRUE)))
         ELSE LastPointScan(bins, k + 1, latest, info)

_find_last_point_in_bins(bins) == LastPointScan(bins, 1, -1, None)

_calculate_weight(current_is_day, point_is_day, time_diff_seconds, is_active) ==
    LET time_similarity == IF current_is_day = point_is_day THEN Float(1) ELSE Frac(2, 10)
        age_factor == FMax(Float(0),
                           FSub(Float(1), FDiv(Float(time_diff_seconds), Float(max_age_seconds))))
        activity_similarity == IF is_active THEN Float(1) ELSE Frac(5, 10)
    IN  FAdd(FAdd(FMul(time_weight, time_similarity),
                  FMul(recency_weight, age_factor)),
             FMul(activity_weight, activity_similarity))

\* a train that stores the observation it rejects as an outlier
TrainManualStoringOutliers(bins, data_point, current_timestamp, is_active) ==
    LET time_diff == IF current_timestamp - data_point.timestamp > 0
                     THEN current_timestamp - data_point.timestamp ELSE 0
        weight == _calculate_weight(is_day(current_timestamp), is_day(data_point.timestamp),
                                    time_diff, is_active)
        k == find_bin(bins, data_point.ambient_light)
        rejected == _is_outlier(data_point, _find_last_point_in_bins(bins))
    IN  IF k = 0
        THEN [bins |-> bins, outcome |-> IF rejected THEN "outlier" ELSE "no_bin",
              target |-> 0, weight |-> IF rejected THEN None ELSE weight,
              removed |-> None, present |-> <<>>]
        ELSE LET u == update(bins[k], data_point.screen_brightness, weight,
                             data_point.timestamp)
             IN  IF rejected
                 THEN [bins |-> [bins EXCEPT ![k] = u.bin], outcome |-> "outlier",
                       target |-> 0, weight |-> None, removed |-> None, present |-> <<>>]
                 ELSE [bins |-> [bins EXCEPT ![k] = u.bin], outcome |-> "updated",
                       target |-> k, weight |-> weight,
                       removed |-> u.removed, present |-> u.present]

\* train past its first test: the bins afterwards and what happened
TrainManual(bins, data_point, current_timestamp, is_active) ==
    IF _is_outlier(data_point, _find_last_point_in_bins(bins))
    THEN [bins |-> bins, outcome |-> "outlier", target |-> 0,
          weight |-> None, removed |-> None, present |-> <<>>]
    ELSE LET time_diff == IF current_timestamp - data_point.timestamp > 0
                          THEN current_timestamp - data_point.timestamp ELSE 0
             weight == _calculate_weight(is_day(current_timestamp),
                                         is_day(data_point.timestamp),
                                         time_diff, is_active)
             k == find_bin(bins, data_point.ambient_light)
         IN  IF k = 0
             THEN [bins |-> bins, outcome |-> "no_bin", target |-> 0,
                   weight |-> weight, removed |-> None, present |-> <<>>]
             ELSE LET u == update(bins[k], data_point.screen_brightness, weight,
                                  data_point.timestamp)
                  IN  [bins |-> [bins EXCEPT ![k] = u.bin], outcome |-> "updated",
                       target |-> k, weight |-> weight,
                       removed |-> u.removed, present |-> u.present]

\* train that trains on automatic adjustments too
train_unfiltered(bins, data_point, current_timestamp, is_active) ==
    TrainManual(bins, data_point, current_timestamp, is_active)

\* train: only manual adjustments are trained on
train(bins, data_point, current_timestamp, is_active) ==
    IF ~data_point.is_manual_adjustment
    THEN [bins |-> bins, outcome |-> "not_manual", target |-> 0,
          weight |-> None, removed |-> None, present |-> <<>>]
    ELSE TrainManual(bins, data_point, current_timestamp, is_active)

model_cleanup(bins, current_timestamp) ==
    [k \in 1..Len(bins) |-> bin_cleanup(bins[k], current_timestamp, max_age_seconds)]

\* sorted(): insertion of x into an ascending sequence, after its equals
RECURSIVE InsertSorted(_, _)
InsertSorted(s, x) ==
    IF s = <<>> THEN <<x>>
    ELSE IF x < s[1] THEN <<x>> \o s
    ELSE <<s[1]>> \o InsertSorted(Tail(s), x)

RECURSIVE sorted(_)
sorted(s) == IF s = <<>> THEN <<>> ELSE InsertSorted(sorted(SubSeq(s, 1, Len(s) - 1)), s[Len(s)])

Min2(a, b) == IF a < b THEN a ELSE b

\* an iteration that leaves a bin of min >= max as it is
AdaptOneBinNoRepair(bin_, i, bin_count, ambient_list) ==
    LET L == Len(ambient_list)
        start_idx == (i * L) \div bin_count
        end_idx == Min2(((i + 1) * L) \div bin_count - 1, L - 1)
    IN  IF start_idx >= L \/ end_idx < 0 \/ start_idx > end_idx
        THEN bin_
        ELSE [bin_ EXCEPT !.min_value = ambient_list[start_idx + 1],
                          !.max_value = IF i = bin_count - 1 THEN ambient_list[L]
                                        ELSE ambient_list[end_idx + 1]]

\* one iteration of the loop of adapt_bins: bin_ at 0-based index i, given
\* the sorted ambient_list (whose elements the code indexes from 0)
AdaptOneBin(bin_, i, bin_count, ambient_list) ==
    LET L == Len(ambient_list)
        start_idx == (i * L) \div bin_count
        end_idx == Min2(((i + 1) * L) \div bin_count - 1, L - 1)
    IN  IF start_idx >= L \/ end_idx < 0 \/ start_idx > end_idx
        THEN bin_
        ELSE LET min_value == ambient_list[start_idx + 1]
                 max_value == IF i = bin_count - 1 THEN ambient_list[L]
                              ELSE ambient_list[end_idx + 1]
                 repaired == IF min_value >= max_value /\ i < bin_count - 1
                                /\ end_idx + 1 < L
                             THEN ambient_list[end_idx + 2]
                             ELSE max_value
             IN  [bin_ EXCEPT !.min_value = min_value, !.max_value = repaired]

\* the loop of adapt_bins over all bins
AdaptAllBins(bins, ambients) ==
    [k \in 1..Len(bins) |-> AdaptOneBin(bins[k], k - 1, Len(bins), sorted(ambients))]

\* an adapt_bins that builds new, empty bins for the new boundaries
adapt_bins_emptying(bins, ambients) ==
    IF Len(ambients) < Len(bins) * 2
    THEN bins
    ELSE [k \in 1..Len(bins) |->
            AdaptiveBin(AdaptAllBins(bins, ambients)[k].min_value,
                        AdaptAllBins(bins, ambients)[k].max_value)]

\* adapt_bins without its test for enough data
adapt_bins_unguarded(bins, ambients) == AdaptAllBins(bins, ambients)

\* adapt_bins over the ambient_light values of historical_data, in its order
adapt_bins(bins, ambients) ==
    IF Len(ambients) < Len(bins) * 2
    THEN bins
    ELSE AdaptAllBins(bins, ambients)

\* a neighbour search that only looks at the lower bins
RECURSIVE NeighbourSearchLower(_, _, _)
NeighbourSearchLower(bins, main_bin_index, idx_offset) ==
    IF idx_offset > Len(bins) - 1 THEN None
    ELSE LET prev_idx == main_bin_index - idx_offset
             prev_pred == IF prev_idx >= 1 THEN get_weighted_average(bins[prev_idx]) ELSE None
         IN  IF prev_pred # None THEN prev_pred
             ELSE NeighbourSearchLower(bins, main_bin_index, idx_offset + 1)

\* a neighbour search that looks at the upper bin before the lower one
RECURSIVE NeighbourSearchUpperFirst(_, _, _)
NeighbourSearchUpperFirst(bins, main_bin_index, idx_offset) ==
    IF idx_offset > Len(bins) - 1 THEN None
    ELSE LET prev_idx == main_bin_index - idx_offset
             next_idx == main_bin_index + idx_offset
             prev_pred == IF prev_idx >= 1 THEN get_weighted_average(bins[prev_idx]) ELSE None
             next_pred == IF next_idx <= Len(bins) THEN get_weighted_average(bins[next_idx])
                          ELSE None
         IN  IF next_pred # None THEN next_pred
             ELSE IF prev_pred # None THEN prev_pred
             ELSE NeighbourSearchUpperFirst(bins, main_bin_index, idx_offset + 1)

\* the neighbour search of predict at offset idx_offset and beyond
RECURSIVE NeighbourSearch(_, _, _)
NeighbourSearch(bins, main_bin_index, idx_offset) ==
    IF idx_offset > Len(bins) - 1 THEN None
    ELSE LET prev_idx == main_bin_index - idx_offset
             next_idx == main_bin_index + idx_offset
             prev_pred == IF prev_idx >= 1 THEN get_weighted_average(bins[prev_idx]) ELSE None
             next_pred == IF next_idx <= Len(bins) THEN get_weighted_average(bins[next_idx])
                          ELSE None
         IN  IF prev_pred # None THEN prev_pred
             ELSE IF next_pred # None THEN next_pred
             ELSE NeighbourSearch(bins, main_bin_index, idx_offset + 1)

\* deque(maxlen=3).append
maxlen == 3

\* an append to a list that is never truncated
deque_append_unbounded(window, x) == Append(window, x)

deque_append(window, x) ==
    IF Len(window) >= maxlen THEN Append(Tail(window), x) ELSE Append(window, x)

interpolation_threshold == Frac(2, 10)

\* a mean that divides by the capacity of the window instead of its length
smoothed_prediction_over_maxlen(window) == FDiv(FSum(window), Float(maxlen))

\* sum(self.last_predictions) / len(self.last_predictions)
smoothed_prediction(window) == FDiv(FSum(window), Float(Len(window)))

\* predict once the main bin (index k) and its base value are known
PredictFrom(bins, window, k, main_prediction, ambient_light, timestamp, is_active) ==
    LET time_factor == IF is_day(timestamp) THEN Float(1) ELSE Frac(8, 10)
        activity_factor == IF is_active THEN Float(1) ELSE Frac(9, 10)
        factor == FMul(time_factor, activity_factor)
        adjusted == FMul(main_prediction, factor)
        bin_range == bins[k].max_value - bins[k].min_value
        position_in_bin == IF bin_range > 0
                           THEN Frac(ambient_light - bins[k].min_value, bin_range)
                           ELSE Frac(5, 10)
        lower == FLt(position_in_bin, interpolation_threshold) /\ k > 1
        upper == ~lower /\ FLt(FSub(Float(1), interpolation_threshold), position_in_bin)
                        /\ k < Len(bins)
        neighbour_avg == IF lower THEN get_weighted_average(bins[k - 1])
                         ELSE IF upper THEN get_weighted_average(bins[k + 1])
                         ELSE None
        interpolation_weight ==
            IF neighbour_avg \in {None, ZeroDivisionError} THEN Float(0)
            ELSE IF lower
                 THEN FDiv(FSub(interpolation_threshold, position_in_bin),
                           interpolation_threshold)
                 ELSE FDiv(FSub(position_in_bin, FSub(Float(1), interpolation_threshold)),
                           interpolation_threshold)
    IN  IF neighbour_avg = ZeroDivisionError
        THEN [ret |-> ZeroDivisionError, window |-> window]
        ELSE LET interpolated ==
                    IF neighbour_avg # None /\ FLt(Float(0), interpolation_weight)
                       /\ FLe(interpolation_weight, Float(1))
                    THEN FAdd(FMul(adjusted, FSub(Float(1), interpolation_weight)),
                              FMul(FMul(neighbour_avg, factor), interpolation_weight))
                    ELSE adjusted
                 appended == deque_append(window, interpolated)
                 smoothed == smoothed_prediction(appended)
             IN  [ret |-> FMax(Float(0), FMin(Float(100), smoothed)), window |-> appended]

\* a predict that puts 0.0 into the window when it has nothing to return
predict_recording_absent(bins, window, ambient_light, timestamp, is_active) ==
    LET k == find_bin(bins, ambient_light)
    IN  IF k = 0
        THEN [ret |-> None, window |-> deque_append(window, Float(0)), base |-> None]
        ELSE LET own == get_weighted_average(bins[k])
                 main_prediction == IF own = None THEN NeighbourSearch(bins, k, 1) ELSE own
             IN  IF main_prediction = None
                 THEN [ret |-> None, window |-> deque_append(window, Float(0)),
                       base |-> None]
                 ELSE IF main_prediction = ZeroDivisionError
                 THEN [ret |-> main_prediction, window |-> window, base |-> main_prediction]
                 ELSE LET r == PredictFrom(bins, window, k, main_prediction,
                                           ambient_light, timestamp, is_active)
                      IN  [ret |-> r.ret, window |-> r.window, base |-> main_prediction]

\* predict: what it returns (None, a float, or the exception it raises), the
\* smoothing window afterwards, and base, the value of main_prediction (the
\* average of the main bin or of the neighbour found) before the adjustments
predict(bins, window, ambient_light, timestamp, is_active) ==
    LET k == find_bin(bins, ambient_light)
    IN  IF k = 0 THEN [ret |-> None, window |-> window, base |-> None]
        ELSE LET own == get_weighted_average(bins[k])
                 main_prediction == IF own = None THEN NeighbourSearch(bins, k, 1) ELSE own
             IN  IF main_prediction \in {None, ZeroDivisionError}
                 THEN [ret |-> main_prediction, window |-> window, base |-> main_prediction]
                 ELSE LET r == PredictFrom(bins, window, k, main_prediction,
                                           ambient_light, timestamp, is_active)
                      IN  [ret |-> r.ret, window |-> r.window, base |-> main_prediction]

\* sorted(data_points, key=timestamp): stable insertion of d after the points
\* of the same or an earlier timestamp
RECURSIVE InsertByTimestamp(_, _)
InsertByTimestamp(s, d) ==
    IF s = <<>> THEN <<d>>
    ELSE IF d.timestamp < s[1].timestamp THEN <<d>> \o s
    ELSE <<s[1]>> \o InsertByTimestamp(Tail(s), d)

RECURSIVE sorted_by_timestamp(_)
sorted_by_timestamp(s) ==
    IF s = <<>> THEN <<>>
    ELSE InsertByTimestamp(sorted_by_timestamp(SubSeq(s, 1, Len(s) - 1)), s[Len(s)])

ambient_lights(data_points) ==
    [i \in 1..Len(data_points) |-> data_points[i].ambient_light]

\* a training loop handing train the current_timestamp and is_active of the caller
RECURSIVE TrainEachWith(_, _, _, _, _)
TrainEachWith(bins, sorted_data, i, current_timestamp, is_active) ==
    IF i > Len(sorted_data) THEN bins
    ELSE TrainEachWith(train(bins, sorted_data[i], current_timestamp, is_active).bins,
                       sorted_data, i + 1, current_timestamp, is_active)

\* load_historical_data training with the caller's current_timestamp and is_active
load_historical_data_as_called(bins, data_points, current_timestamp, is_active) ==
    TrainEachWith(adapt_bins(bins, ambient_lights(data_points)),
                  sorted_by_timestamp(data_points), 1, current_timestamp, is_active)

\* the training loop of load_historical_data from point i of sorted_data on
RECURSIVE TrainEach(_, _, _)
TrainEach(bins, sorted_data, i) ==
    IF i > Len(sorted_data) THEN bins
    ELSE TrainEach(train(bins, sorted_data[i], sorted_data[i].timestamp, TRUE).bins,
                   sorted_data, i + 1)

\* load_historical_data: adapt_bins, then train in the order of the timestamps;
\* current_timestamp and is_active are not used by the code
load_historical_data(bins, data_points, current_timestamp, is_active) ==
    TrainEach(adapt_bins(bins, ambient_lights(data_points)),
              sorted_by_timestamp(data_points), 1)

----------------------------------------------------------------------------
(* Inputs explored *)

\* constructor arguments of the main specification: two bins over [0, 2400]
Args == {[min_ambient |-> 0, max_ambient |-> 2400, bin_count |-> 2]}

\* constructor arguments of the constructor specification, the invalid ones
\* and those with bin_count > max_ambient - min_ambient included
CtorArgs ==
    {[min_ambient |-> a, max_ambient |-> b, bin_count |-> n] :
        a \in {-1, 0}, b \in {0, 1, 7, 2400}, n \in 0..MaxBinCount}

\* ambient readings of predict: below the domain, inside it (in both bins,
\* near and on their boundaries) and above it
Ambients == {-1, 0, 1100, 1200, 2400, 2401}
\* ambient readings of the observations trained
TrainAmbients == {-1, 0, 1200, 2400, 2401}
Brightnesses == {0, 50, 110}
\* observation timestamps: 00:00 (night) and 12:00 (day) of day 0
PointTimes == {0, 43200}
\* the manual adjustments trained
ManualPoints ==
    {DataPoint(ts, x, b, TRUE) : ts \in PointTimes, x \in TrainAmbients, b \in Brightnesses}
\* the automatic adjustments handed to train
AutomaticPoints ==
    {DataPoint(ts, x, 50, FALSE) : ts \in PointTimes, x \in TrainAmbients}
\* current_timestamp of train
TrainTimes == {43200}
\* timestamp of predict
PredictTimes == {0, 43200}
\* current_timestamp of cleanup: day 0, and 12:00 of day 7
CleanupTimes == {0, 43200 + max_age_seconds}
\* historical ambient values handed to adapt_bins
Histories == {<<1200, 0, 2400>>, <<2400, 0, 1200, 0>>,
              <<0, 2400, 1200, 2400>>, <<1200, 1200, 1200, 1200>>}
\* the batches handed to load_historical_data: one too short for adapt_bins,
\* one that moves the boundary to 1100, one with an automatic adjustment;
\* none is in the order of its timestamps
HistoricalData ==
    {<<DataPoint(43200, 0, 50, TRUE), DataPoint(0, 1200, 110, TRUE)>>,
     <<DataPoint(43200, 1100, 50, TRUE), DataPoint(0, 0, 0, TRUE),
       DataPoint(43200, 2400, 50, TRUE), DataPoint(0, 0, 50, TRUE)>>,
     <<DataPoint(43200, 1200, 110, TRUE), DataPoint(0, 0, 50, TRUE),
       DataPoint(43200, 2400, 50, FALSE), DataPoint(0, 1200, 50, TRUE)>>}
\* current_timestamp and is_active of load_historical_data: 12:00 of day 0 while
\* active, and 12:00 of day 7 while idle
LoadCalls == {<<43200, TRUE>>, <<43200 + max_age_seconds, FALSE>>}

----------------------------------------------------------------------------
(* The state machine *)

\* the state after EnhancedBrightnessModel(a.min_ambient, a.max_ambient, a.bin_count)
Constructed(a, calls) ==
    /\ args = a
    /\ ambient_bins = IF InvalidArgs(a) THEN <<>> ELSE InitialBins(a)
    /\ last_predictions = <<>>
    /\ lastOp = [op |-> "__init__", raised |-> InvalidArgs(a)]
    /\ remaining = calls

Init == \E a \in Args : Constructed(a, MaxOps)

\* a model exists and the exploration bound is not reached
Callable == ~InvalidArgs(args) /\ remaining > 0

PointCount(bins) == FSum([k \in 1..Len(bins) |-> Float(Len(bins[k].points))])[1]

Train(data_point, current_timestamp, is_active) ==
    /\ Callable
    /\ \E t \in {train(ambient_bins, data_point, current_timestamp, is_active)} :
           /\ ambient_bins' = t.bins
           /\ lastOp' = [op |-> "train", data_point |-> data_point,
                         outcome |-> t.outcome, target |-> t.target,
                         weight |-> t.weight, evicted |-> t.removed # None,
                         removed |-> t.removed,
                         retry |-> /\ lastOp.op = "train"
                                   /\ lastOp.outcome = "outlier"
                                   /\ lastOp.data_point.screen_brightness
                                         = data_point.screen_brightness
                                   /\ lastOp.data_point.ambient_light
                                         = data_point.ambient_light]
    /\ remaining' = remaining - 1
    /\ UNCHANGED <<last_predictions, args>>

Predict(ambient_light, timestamp, is_active) ==
    /\ Callable
    /\ \E r \in {predict(ambient_bins, last_predictions, ambient_light, timestamp, is_active)} :
           /\ last_predictions' = r.window
           /\ lastOp' = [op |-> "predict", ambient_light |-> ambient_light,
                         timestamp |-> timestamp, is_active |-> is_active,
                         ret |-> r.ret, base |-> r.base,
                         evicted |-> Len(r.ret) = 2 /\ Len(last_predictions) = maxlen]
    /\ remaining' = remaining - 1
    /\ UNCHANGED <<ambient_bins, args>>

Cleanup(current_timestamp) ==
    /\ Callable
    /\ ambient_bins' = model_cleanup(ambient_bins, current_timestamp)
    /\ lastOp' = [op |-> "cleanup", current_timestamp |-> current_timestamp,
                  dropped |-> PointCount(ambient_bins) - PointCount(ambient_bins')]
    /\ remaining' = remaining - 1
    /\ UNCHANGED <<last_predictions, args>>

Rebin(ambients) ==
    /\ Callable
    /\ ambient_bins' = adapt_bins(ambient_bins, ambients)
    /\ lastOp' = [op |-> "adapt_bins", ambients |-> ambients]
    /\ remaining' = remaining - 1
    /\ UNCHANGED <<last_predictions, args>>

LoadHistorical(data_points, current_timestamp, is_active) ==
    /\ Callable
    /\ ambient_bins' = load_historical_data(ambient_bins, data_points,
                                            current_timestamp, is_active)
    /\ lastOp' = [op |-> "load_historical_data", data_points |-> data_points,
                  current_timestamp |-> current_timestamp, is_active |-> is_active]
    /\ remaining' = remaining - 1
    /\ UNCHANGED <<last_predictions, args>>

Next ==
    \/ \E d \in ManualPoints \cup AutomaticPoints, now \in TrainTimes, act \in BOOLEAN :
          Train(d, now, act)
    \/ \E x \in Ambients, ts \in PredictTimes, act \in BOOLEAN : Predict(x, ts, act)
    \/ \E now \in CleanupTimes : Cleanup(now)
    \/ \E h \in Histories : Rebin(h)
    \/ \E h \in HistoricalData, c \in LoadCalls : LoadHistorical(h, c[1], c[2])

Spec == Init /\ [][Next]_vars

\* construction from every argument combination, followed by one call
InitCtor == \E a \in CtorArgs : Constructed(a, 1)
SpecCtor == InitCtor /\ [][Next]_vars

\* longer runs of train and predict on three bins over [0, 2400], on fewer
\* inputs: one observation per bin (brightness 40, 80 and 110), and predict
\* for the middle of each bin and for 1500, near the upper end of the middle
\* bin, at 00:00 and at 12:00
SmoothArgs == [min_ambient |-> 0, max_ambient |-> 2400, bin_count |-> 3]
SmoothPoints == {DataPoint(43200, 0, 40, TRUE), DataPoint(43200, 800, 80, TRUE),
                 DataPoint(43200, 1600, 110, TRUE)}
SmoothAmbients == {400, 1200, 1500, 2000}
InitSmooth == Constructed(SmoothArgs, MaxSmoothOps)
NextSmooth ==
    \/ \E d \in SmoothPoints : Train(d, 43200, TRUE)
    \/ \E x \in SmoothAmbients, ts \in PredictTimes : Predict(x, ts, TRUE)
SpecSmooth == InitSmooth /\ [][NextSmooth]_vars

\* one adapt_bins on two or three new bins over [0, 2400], for every history
\* of 4 to MaxHistoryLen values out of three
RebinValues == {0, 1200, 2400}
RebinHistories == UNION {[1..n -> RebinValues] : n \in 4..MaxHistoryLen}
InitRebin ==
    \E n \in {2, 3} :
        Constructed([min_ambient |-> 0, max_ambient |-> 2400, bin_count |-> n], 1)
NextRebin == \E h \in RebinHistories : Rebin(h)
SpecRebin == InitRebin /\ [][NextRebin]_vars

----------------------------------------------------------------------------
(* Vocabulary of the properties *)

\* the bins that bin lookup's condition accepts for x
MatchingBins(bins, x) == {k \in 1..Len(bins) : BinMatches(bins, k, x)}

Contiguous(bins) ==
    \A k \in 1..(Len(bins) - 1) : bins[k].max_value = bins[k + 1].min_value

Ascending(bins) ==
    \A k \in 1..(Len(bins) - 1) :
        /\ bins[k].min_value <= bins[k + 1].min_value
        /\ bins[k].max_value <= bins[k + 1].max_value

\* every value from the first bin's min to the last bin's max has one bin
CoveredOnce(bins) ==
    \A x \in bins[1].min_value .. bins[Len(bins)].max_value :
        Cardinality(MatchingBins(bins, x)) = 1

OutsideDomain(x) == x < args.min_ambient \/ x > args.max_ambient

Boundaries(bins) == [k \in 1..Len(bins) |-> <<bins[k].min_value, bins[k].max_value>>]
Contents(bins) == [k \in 1..Len(bins) |-> <<bins[k].points, bins[k].total_weight>>]

----------------------------------------------------------------------------
(* Properties *)

\* C1: after a rebin with at least 2 * bin_count observations the bins are
\* ascending, each bin's max is the next bin's min, and every value between
\* the first min and the last max is matched by exactly one bin.
C1_RebinPartitions ==
    (lastOp.op = "adapt_bins" /\ Len(lastOp.ambients) >= 2 * Len(ambient_bins))
        => /\ Ascending(ambient_bins)
           /\ Contiguous(ambient_bins)
           /\ CoveredOnce(ambient_bins)

\* C2: right after construction with min_ambient < max_ambient and
\* bin_count > 0 there are bin_count bins from min_ambient to max_ambient,
\* each bin's max is the next bin's min, and every x in
\* [min_ambient, max_ambient] is matched by exactly one bin.
C2_ConstructionPartitions ==
    (lastOp.op = "__init__" /\ args.min_ambient < args.max_ambient /\ args.bin_count > 0)
        => /\ Len(ambient_bins) = args.bin_count
           /\ ambient_bins[1].min_value = args.min_ambient
           /\ ambient_bins[Len(ambient_bins)].max_value = args.max_ambient
           /\ Contiguous(ambient_bins)
           /\ \A x \in args.min_ambient .. args.max_ambient :
                 Cardinality(MatchingBins(ambient_bins, x)) = 1

\* C2 witness: a model constructed with more bins than the domain is wide,
\* so that the integer bin width is 0
C2_Witness ==
    /\ lastOp.op = "__init__"
    /\ args.min_ambient < args.max_ambient
    /\ args.bin_count > args.max_ambient - args.min_ambient
    /\ Len(ambient_bins) = args.bin_count
    /\ ambient_bins[1].max_value = ambient_bins[1].min_value

PresentAtEviction ==
    Append(ambient_bins[lastOp'.target].points,
           WeightedDataPoint(lastOp'.data_point.screen_brightness, lastOp'.weight,
                             lastOp'.data_point.timestamp))

\* C5: no bin ever holds more than its capacity, and a point evicted by
\* update has the minimum weight of all points present, the new one included.
C5_CapacityAndMinimumEvicted ==
    /\ [](\A k \in 1..Len(ambient_bins) : Len(ambient_bins[k].points) <= MaxPoints)
    /\ [][(lastOp'.op = "train" /\ lastOp'.evicted)
            => \E i \in 1..Len(PresentAtEviction) :
                  /\ ambient_bins'[lastOp'.target].points = RemoveAt(PresentAtEviction, i)
                  /\ \A j \in 1..Len(PresentAtEviction) :
                        FLe(PresentAtEviction[i].weight, PresentAtEviction[j].weight)]_vars

\* C5 witness: an eviction from a full bin whose surviving points have
\* different weights
C5_Witness ==
    /\ lastOp.op = "train"
    /\ lastOp.evicted
    /\ Len(ambient_bins[lastOp.target].points) = MaxPoints
    /\ \E i, j \in 1..MaxPoints :
          FLt(ambient_bins[lastOp.target].points[i].weight,
              ambient_bins[lastOp.target].points[j].weight)

\* C6: predict returns None or a value v with 0 <= v <= 100, and raises
\* nothing.
C6_PredictInRange ==
    lastOp.op = "predict"
        => \/ lastOp.ret = None
           \/ /\ Len(lastOp.ret) = 2
              /\ FLe(Float(0), lastOp.ret)
              /\ FLe(lastOp.ret, Float(100))

\* C6 witness: predict returned a value for an ambient value whose bin has
\* zero width
C6_Witness ==
    /\ lastOp.op = "predict"
    /\ lastOp.ret # None
    /\ find_bin(ambient_bins, lastOp.ambient_light) # 0
    /\ LET b == ambient_bins[find_bin(ambient_bins, lastOp.ambient_light)]
       IN  b.max_value = b.min_value

\* C7: train of an observation that is not a manual adjustment leaves every
\* bin's points and total_weight unchanged.
C7_AutomaticNotTrained ==
    [][(lastOp'.op = "train" /\ ~lastOp'.data_point.is_manual_adjustment)
          => Contents(ambient_bins') = Contents(ambient_bins)]_vars

\* C7 witness: such a train on a model that holds points, with an
\* observation that would have been stored had it been manual
C7_Witness ==
    /\ lastOp.op = "train"
    /\ ~lastOp.data_point.is_manual_adjustment
    /\ \E k \in 1..Len(ambient_bins) : ambient_bins[k].points # <<>>
    /\ TrainManual(ambient_bins, lastOp.data_point, 43200, TRUE).outcome = "updated"

\* C8: cleanup(now) keeps, in order and unchanged, exactly the points with
\* now - timestamp <= max_age_seconds (7 days) and removes the others.
C8_CleanupRemovesExactlyTheOld ==
    [][lastOp'.op = "cleanup"
          => \A k \in 1..Len(ambient_bins) :
                ambient_bins'[k].points =
                    SelectSeq(ambient_bins[k].points,
                              LAMBDA p : ~(lastOp'.current_timestamp - p.timestamp
                                             > 7 * 24 * 3600))]_vars

\* C8 witness: a cleanup that removed a point and kept one of age exactly
\* max_age_seconds
C8_Witness ==
    /\ lastOp.op = "cleanup"
    /\ lastOp.dropped > 0
    /\ \E k \in 1..Len(ambient_bins) : \E i \in 1..Len(ambient_bins[k].points) :
          lastOp.current_timestamp - ambient_bins[k].points[i].timestamp = 7 * 24 * 3600

\* C9: adapt_bins with fewer than 2 * bin_count observations leaves every
\* bin's min and max as they were.
C9_ShortHistoryNoOp ==
    [][(lastOp'.op = "adapt_bins" /\ Len(lastOp'.ambients) < 2 * Len(ambient_bins))
          => Boundaries(ambient_bins') = Boundaries(ambient_bins)]_vars

\* C9 witness: such a call on a model whose boundaries an earlier rebin
\* had moved
C9_Witness ==
    /\ lastOp.op = "adapt_bins"
    /\ Len(lastOp.ambients) < 2 * Len(ambient_bins)
    /\ Boundaries(ambient_bins) # Boundaries(InitialBins(args))

NoUsableData(bin) == bin.points = <<>> \/ bin.total_weight = Float(0)

\* C10: for an ambient value that bin lookup places in a bin, predict returns
\* None exactly when no bin of the model has usable data.
C10_AbsentIffNoData ==
    (lastOp.op = "predict" /\ find_bin(ambient_bins, lastOp.ambient_light) # 0)
        => (lastOp.ret = None
              <=> \A k \in 1..Len(ambient_bins) : NoUsableData(ambient_bins[k]))

\* C10 witness: a predict after at least one earlier call, for an ambient
\* value inside a bin of a model without data, returning None
C10_Witness ==
    /\ lastOp.op = "predict"
    /\ remaining <= MaxOps - 2
    /\ find_bin(ambient_bins, lastOp.ambient_light) # 0
    /\ \A k \in 1..Len(ambient_bins) : ambient_bins[k].points = <<>>
    /\ lastOp.ret = None

\* two predict calls in a row with the same arguments, both returning a value
SamePredictTwice ==
    /\ lastOp.op = "predict" /\ lastOp'.op = "predict"
    /\ lastOp'.ambient_light = lastOp.ambient_light
    /\ lastOp'.timestamp = lastOp.timestamp
    /\ lastOp'.is_active = lastOp.is_active
    /\ Len(lastOp.ret) = 2 /\ Len(lastOp'.ret) = 2

\* C11 as stated: two consecutive predict calls with the same arguments, both
\* returning a value, return different values.
C11_IdenticalCallsDiffer ==
    [][SamePredictTwice => lastOp'.ret # lastOp.ret]_vars

\* C11 amended: the second of two such calls appends to the smoothing window
\* the value the first one appended, and it returns a different value only if
\* the window between the two calls held a value other than that one; after
\* an empty window both calls return the same value.
C11_SecondCallDiffersOnlyOnMixedWindow ==
    [][SamePredictTwice
         => /\ last_predictions # <<>>
            /\ last_predictions'[Len(last_predictions')]
                   = last_predictions[Len(last_predictions)]
            /\ (lastOp'.ret # lastOp.ret
                  => \E i \in 1..Len(last_predictions) :
                        last_predictions[i] # last_predictions[Len(last_predictions)])]_vars

\* C11 witness: the second of two predict calls with the same arguments,
\* which returned something else than the mean of a window holding its value
\* only: the window still holds an older, different value
C11_Witness ==
    /\ lastOp.op = "predict"
    /\ Len(lastOp.ret) = 2
    /\ Len(last_predictions) = 3
    /\ last_predictions[2] = last_predictions[3]
    /\ last_predictions[1] # last_predictions[3]
    /\ lastOp.ret # last_predictions[3]
    /\ lastOp.ret = FDiv(FSum(last_predictions), Float(3))

\* C12: construction raises ValueError exactly when bin_count <= 0 or
\* min_ambient >= max_ambient; otherwise it yields bin_count bins without
\* points, of total_weight 0, and an empty smoothing window.
C12_ConstructionFailsExactlyOnBadArgs ==
    lastOp.op = "__init__"
        => /\ lastOp.raised <=> (args.bin_count <= 0 \/ args.min_ambient >= args.max_ambient)
           /\ ~lastOp.raised
                => /\ Len(ambient_bins) = args.bin_count
                   /\ \A k \in 1..Len(ambient_bins) :
                         /\ ambient_bins[k].points = <<>>
                         /\ ambient_bins[k].total_weight = Float(0)
                   /\ last_predictions = <<>>

\* C12 witness: construction with a positive bin_count and
\* min_ambient = max_ambient, which raised
C12_Witness ==
    /\ lastOp.op = "__init__"
    /\ lastOp.raised
    /\ args.bin_count > 0
    /\ args.min_ambient = args.max_ambient

\* the sample p of bin k after the call was not in bin k before it
StoredByCall(k, p) ==
    \A i \in 1..Len(ambient_bins[k].points) : ambient_bins[k].points[i] # p

\* C13: load_historical_data rebins from the batch first and then trains its
\* points in the order of their timestamps, each as of its own timestamp and
\* as active: every sample it stores has weight time_weight + recency_weight
\* + activity_weight whatever current_timestamp and is_active it was called
\* with, lies in the bin that matches its observation after the rebin, and
\* follows the samples of earlier timestamps stored by the same call.
C13_LoadStoresFullWeight ==
    [][lastOp'.op = "load_historical_data"
         => /\ Boundaries(ambient_bins')
                  = Boundaries(adapt_bins(ambient_bins, ambient_lights(lastOp'.data_points)))
            /\ \A k \in 1..Len(ambient_bins') : \A i \in 1..Len(ambient_bins'[k].points) :
                  LET p == ambient_bins'[k].points[i]
                  IN  StoredByCall(k, p)
                        => /\ p.weight = FAdd(FAdd(time_weight, recency_weight),
                                              activity_weight)
                           /\ \E j \in 1..Len(lastOp'.data_points) :
                                 LET d == lastOp'.data_points[j]
                                 IN  /\ d.is_manual_adjustment
                                     /\ d.timestamp = p.timestamp
                                     /\ d.screen_brightness = p.brightness
                                     /\ find_bin(ambient_bins', d.ambient_light) = k
                           /\ \A j \in (i + 1)..Len(ambient_bins'[k].points) :
                                 StoredByCall(k, ambient_bins'[k].points[j])
                                   => p.timestamp <= ambient_bins'[k].points[j].timestamp]_vars

\* C13 witness: a load called a week after its oldest point and as idle, on
\* a model that held a sample of another weight, which moved the boundary
\* between the bins and stored points of different timestamps
C13_Witness ==
    /\ lastOp.op = "load_historical_data"
    /\ ~lastOp.is_active
    /\ lastOp.current_timestamp >= max_age_seconds
    /\ ambient_bins[1].max_value = 1100
    /\ \E k \in 1..Len(ambient_bins) : \E i \in 1..Len(ambient_bins[k].points) :
          ambient_bins[k].points[i].weight # Float(1)
    /\ \E k, l \in 1..Len(ambient_bins) :
          \E i \in 1..Len(ambient_bins[k].points), j \in 1..Len(ambient_bins[l].points) :
             /\ ambient_bins[k].points[i].weight = Float(1)
             /\ ambient_bins[l].points[j].weight = Float(1)
             /\ ambient_bins[k].points[i].timestamp < ambient_bins[l].points[j].timestamp

\* the weighted mean of the brightness of the samples of a bin that has some
WeightedMean(points) ==
    FDiv(FSum([i \in 1..Len(points) |-> FMul(Float(points[i].brightness), points[i].weight)]),
         FSum([i \in 1..Len(points) |-> points[i].weight]))

Clamped(x) == IF FLt(x, Float(0)) THEN Float(0) ELSE IF FLt(Float(100), x) THEN Float(100) ELSE x

\* day_factor * activity_factor of the predict call just made
FactorsOfCall ==
    FMul(IF is_day(lastOp.timestamp) THEN Float(1) ELSE Frac(8, 10),
         IF lastOp.is_active THEN Float(1) ELSE Frac(9, 10))

\* the predict call just made returned a value for an ambient value of a bin
\* with samples, every other bin being empty, on an empty smoothing window
\* (the window holds one value after the call)
LonePredict ==
    /\ lastOp.op = "predict" /\ Len(lastOp.ret) = 2
    /\ Len(last_predictions) = 1
    /\ find_bin(ambient_bins, lastOp.ambient_light) # 0
    /\ \A k \in 1..Len(ambient_bins) :
          (ambient_bins[k].points # <<>>) <=> (k = find_bin(ambient_bins, lastOp.ambient_light))

\* C14: with data in one bin only and an empty smoothing window, predict for
\* an ambient value of that bin returns the bin's weighted average times
\* day_factor (1.0 from 6:00 to 18:00, else 0.8) times activity_factor (1.0
\* if active, else 0.9), clamped to [0, 100]; with a single sample of
\* brightness b in [0, 100] that is b * day_factor * activity_factor.
C14_SingleBinPrediction ==
    LonePredict
        => LET points == ambient_bins[find_bin(ambient_bins, lastOp.ambient_light)].points
           IN  /\ lastOp.ret = Clamped(FMul(WeightedMean(points), FactorsOfCall))
               /\ (Len(points) = 1 /\ points[1].brightness \in 0..100)
                     => lastOp.ret = FMul(Float(points[1].brightness), FactorsOfCall)

\* C14 witness: such a predict at night while idle, on a bin holding two
\* samples of different weight and brightness
C14_Witness ==
    /\ LonePredict
    /\ ~is_day(lastOp.timestamp) /\ ~lastOp.is_active
    /\ LET points == ambient_bins[find_bin(ambient_bins, lastOp.ambient_light)].points
       IN  /\ Len(points) = 2
           /\ points[1].weight # points[2].weight
           /\ points[1].brightness # points[2].brightness

\* C15: in every reachable state, train of a manual adjustment that is not
\* rejected as an outlier and whose ambient_light lies in
\* [min_ambient, max_ambient] finds a bin and updates it; train finds no bin
\* only for an ambient value outside the domain.
C15_InDomainTrainFindsBin ==
    (lastOp.op = "train" /\ lastOp.data_point.is_manual_adjustment
        /\ lastOp.outcome # "outlier")
        => /\ ~OutsideDomain(lastOp.data_point.ambient_light) => lastOp.outcome = "updated"
           /\ lastOp.outcome = "no_bin" => OutsideDomain(lastOp.data_point.ambient_light)

\* sample i of bin k has the most recent timestamp of all stored samples, and
\* is the first such sample in the order of the bins and of insertion
IsLastSample(bins, k, i) ==
    \A l \in 1..Len(bins) : \A j \in 1..Len(bins[l].points) :
        /\ bins[l].points[j].timestamp <= bins[k].points[i].timestamp
        /\ bins[l].points[j].timestamp = bins[k].points[i].timestamp
              => (k < l \/ (k = l /\ i <= j))

\* a last sample exists and d is more than 80 away from its brightness or
\* more than 1200 away from the integer midpoint of its bin
FarFromLastSample(bins, d) ==
    \E k \in 1..Len(bins) : \E i \in 1..Len(bins[k].points) :
        /\ IsLastSample(bins, k, i)
        /\ \/ Abs(d.screen_brightness - bins[k].points[i].brightness) > 80
           \/ Abs(d.ambient_light - (bins[k].min_value + bins[k].max_value) \div 2) > 1200

\* C16 as stated: train of a manual adjustment changes no bin exactly when a
\* last sample exists and the observation is more than 80 away from its
\* brightness or more than 1200 away from the midpoint of its bin.
C16_NoOpExactlyWhenOutlier ==
    [][(lastOp'.op = "train" /\ lastOp'.data_point.is_manual_adjustment)
         => (ambient_bins' = ambient_bins
                <=> FarFromLastSample(ambient_bins, lastOp'.data_point))]_vars

\* C16 amended: train of a manual adjustment rejects it as an outlier, and
\* then changes no bin, exactly when a last sample exists and the observation
\* is more than 80 away from its brightness or more than 1200 away from the
\* midpoint of its bin; with all bins empty nothing is rejected.
C16_RejectedExactlyWhenOutlier ==
    [][(lastOp'.op = "train" /\ lastOp'.data_point.is_manual_adjustment)
         => /\ lastOp'.outcome = "outlier"
                  <=> FarFromLastSample(ambient_bins, lastOp'.data_point)
            /\ lastOp'.outcome = "outlier" => ambient_bins' = ambient_bins
            /\ (\A k \in 1..Len(ambient_bins) : ambient_bins[k].points = <<>>)
                  => lastOp'.outcome # "outlier"]_vars

\* C16 witness: a train rejected for its ambient value alone, while two bins
\* hold samples of the same, most recent timestamp
C16_Witness ==
    /\ lastOp.op = "train"
    /\ lastOp.outcome = "outlier"
    /\ \E i \in 1..Len(ambient_bins[1].points), j \in 1..Len(ambient_bins[2].points) :
          /\ IsLastSample(ambient_bins, 1, i)
          /\ ambient_bins[2].points[j].timestamp = ambient_bins[1].points[i].timestamp
          /\ Abs(lastOp.data_point.screen_brightness - ambient_bins[1].points[i].brightness) <= 80
          /\ Abs(lastOp.data_point.ambient_light
                   - (ambient_bins[1].min_value + ambient_bins[1].max_value) \div 2) > 1200
          /\ Abs(lastOp.data_point.ambient_light
                   - (ambient_bins[2].min_value + ambient_bins[2].max_value) \div 2) <= 1200

\* the bins with samples, and the least distance in index from bin k to one
BinsWithData(bins) == {j \in 1..Len(bins) : bins[j].points # <<>>}
NearestDistance(bins, k) ==
    CHOOSE d \in 1..Len(bins) :
        /\ \E j \in BinsWithData(bins) : Abs(j - k) = d
        /\ \A j \in BinsWithData(bins) : Abs(j - k) >= d

\* C17: when the bin found for the ambient value has no data and another bin
\* has, the base value of predict is the weighted average of the bin with
\* data at the least distance d >= 1 in index, the lower one (index - d) when
\* both bins at that distance have data.
C17_NearestNeighbourLowerFirst ==
    (lastOp.op = "predict" /\ find_bin(ambient_bins, lastOp.ambient_light) # 0
        /\ find_bin(ambient_bins, lastOp.ambient_light) \notin BinsWithData(ambient_bins)
        /\ BinsWithData(ambient_bins) # {})
        => LET k == find_bin(ambient_bins, lastOp.ambient_light)
               d == NearestDistance(ambient_bins, k)
               chosen == IF k - d \in BinsWithData(ambient_bins) THEN k - d ELSE k + d
           IN  lastOp.base = WeightedMean(ambient_bins[chosen].points)

\* C17 witness: predict for an ambient value of the empty middle bin while
\* the bins below and above it hold data of different averages
C17_Witness ==
    /\ lastOp.op = "predict"
    /\ find_bin(ambient_bins, lastOp.ambient_light) = 2
    /\ BinsWithData(ambient_bins) = {1, 3}
    /\ WeightedMean(ambient_bins[1].points) # WeightedMean(ambient_bins[3].points)
    /\ lastOp.base = WeightedMean(ambient_bins[1].points)

\* the value predict blends for ambient value x of bin k from adjusted (the
\* base value times the factors) and the average of a neighbour bin: the
\* lower one below 20% of the bin's width, the upper one above 80%
BlendAt(bins, k, x, adjusted, factors) ==
    LET width == bins[k].max_value - bins[k].min_value
        position == IF width > 0 THEN Frac(x - bins[k].min_value, width) ELSE Frac(1, 2)
        blend(j, w) ==
            IF bins[j].points = <<>> \/ FLe(w, Float(0)) \/ FLt(Float(1), w) THEN adjusted
            ELSE FAdd(FMul(adjusted, FSub(Float(1), w)),
                      FMul(FMul(WeightedMean(bins[j].points), factors), w))
    IN  IF FLt(position, Frac(1, 5)) /\ k > 1
        THEN blend(k - 1, FMul(FSub(Frac(1, 5), position), Float(5)))
        ELSE IF FLt(Frac(4, 5), position) /\ k < Len(bins)
        THEN blend(k + 1, FMul(FSub(position, Frac(4, 5)), Float(5)))
        ELSE adjusted

\* C18: the smoothing window never holds more than 3 values; a predict that
\* returns a value appends one value to it, the blended and not yet clamped
\* prediction, dropping the oldest value of a full window, and returns the
\* mean of the window after the append, clamped to [0, 100].
C18_WindowIsFifoOfThree ==
    /\ [](Len(last_predictions) <= 3)
    /\ [][(lastOp'.op = "predict" /\ Len(lastOp'.ret) = 2)
            => /\ last_predictions' =
                     Append(IF Len(last_predictions) = 3 THEN Tail(last_predictions)
                            ELSE last_predictions,
                            BlendAt(ambient_bins, find_bin(ambient_bins, lastOp'.ambient_light),
                                    lastOp'.ambient_light,
                                    FMul(lastOp'.base,
                                         FMul(IF is_day(lastOp'.timestamp) THEN Float(1)
                                              ELSE Frac(8, 10),
                                              IF lastOp'.is_active THEN Float(1)
                                              ELSE Frac(9, 10))),
                                    FMul(IF is_day(lastOp'.timestamp) THEN Float(1)
                                         ELSE Frac(8, 10),
                                         IF lastOp'.is_active THEN Float(1) ELSE Frac(9, 10))))
               /\ lastOp'.ret = Clamped(FDiv(FSum(last_predictions'),
                                             Float(Len(last_predictions'))))]_vars

\* C18 witness: a predict on a full window dropped its oldest value; the
\* window holds different values, one of them above 100
C18_Witness ==
    /\ lastOp.op = "predict"
    /\ lastOp.evicted
    /\ Len(last_predictions) = 3
    /\ last_predictions[1] # last_predictions[3]
    /\ \E i \in 1..3 : FLt(Float(100), last_predictions[i])

\* the index of the first sample of least weight
FirstLightest(points) ==
    CHOOSE i \in 1..Len(points) :
        /\ \A j \in 1..Len(points) : FLe(points[i].weight, points[j].weight)
        /\ \A j \in 1..(i - 1) : FLt(points[i].weight, points[j].weight)

\* C19: an update past capacity evicts the first sample, in insertion order,
\* among those of least weight; the sample just added is the one evicted
\* only if it is lighter than every sample the bin held, and the bin's
\* samples are then those it held before.
C19_FirstOfLightestEvicted ==
    [][(lastOp'.op = "train" /\ lastOp'.evicted)
         => /\ ambient_bins'[lastOp'.target].points
                  = RemoveAt(PresentAtEviction, FirstLightest(PresentAtEviction))
            /\ lastOp'.removed[1] = PresentAtEviction[FirstLightest(PresentAtEviction)]
            /\ (\A j \in 1..Len(ambient_bins[lastOp'.target].points) :
                   FLt(lastOp'.weight, ambient_bins[lastOp'.target].points[j].weight))
                 <=> FirstLightest(PresentAtEviction) = Len(PresentAtEviction)
            /\ FirstLightest(PresentAtEviction) = Len(PresentAtEviction)
                 => ambient_bins'[lastOp'.target].points
                       = ambient_bins[lastOp'.target].points]_vars

\* C19 witness: an update evicted a sample as light as the one just added
\* and as a sample that stays, and the sample just added stays too
C19_Witness ==
    /\ lastOp.op = "train"
    /\ lastOp.evicted
    /\ lastOp.removed[1].weight = lastOp.weight
    /\ LET points == ambient_bins[lastOp.target].points
       IN  /\ Len(points) = MaxPoints
           /\ points[1].weight = lastOp.weight
           /\ points[1] # lastOp.removed[1]
           /\ points[Len(points)] =
                 WeightedDataPoint(lastOp.data_point.screen_brightness, lastOp.weight,
                                   lastOp.data_point.timestamp)

\* the value at 0-based index j of the history h sorted ascending: j values
\* of h at most lie below it, and more than j are not above it
SortedAt(h, j) ==
    CHOOSE v \in {h[i] : i \in 1..Len(h)} :
        /\ Cardinality({i \in 1..Len(h) : h[i] < v}) <= j
        /\ j < Cardinality({i \in 1..Len(h) : h[i] <= v})

\* the last call was an adapt_bins with at least 2 * bin_count values
RebinDone == lastOp.op = "adapt_bins" /\ Len(lastOp.ambients) >= 2 * Len(ambient_bins)

\* the indices of the claim for the bin of 0-based index i
StartIndex(i) == (i * Len(lastOp.ambients)) \div Len(ambient_bins)
EndIndex(i) ==
    Min2(((i + 1) * Len(lastOp.ambients)) \div Len(ambient_bins) - 1, Len(lastOp.ambients) - 1)

\* the boundaries the claim gives the bin of 0-based index i
QuantileBoundaries(i) ==
    LET h == lastOp.ambients
        lo == SortedAt(h, StartIndex(i))
        hi == IF i = Len(ambient_bins) - 1 THEN SortedAt(h, Len(h) - 1)
              ELSE SortedAt(h, EndIndex(i))
    IN  /\ ambient_bins[i + 1].min_value = lo
        /\ ambient_bins[i + 1].max_value =
              IF lo >= hi /\ i < Len(ambient_bins) - 1 /\ EndIndex(i) + 1 < Len(h)
              THEN SortedAt(h, EndIndex(i) + 1)
              ELSE hi

\* C20 as stated: after a rebin over L >= 2 * N values every bin has the
\* quantile boundaries, a non-last bin of min >= max having its max replaced
\* by the next sorted value, and every non-last bin then has min < max
\* whenever the history holds a value above its min.
C20_RepairedWheneverGreaterValue ==
    RebinDone
        => \A i \in 0..(Len(ambient_bins) - 1) :
              /\ QuantileBoundaries(i)
              /\ (i < Len(ambient_bins) - 1
                    /\ \E j \in 1..Len(lastOp.ambients) :
                          lastOp.ambients[j] > ambient_bins[i + 1].min_value)
                   => ambient_bins[i + 1].min_value < ambient_bins[i + 1].max_value

\* C20 amended: after a rebin over L >= 2 * N values every bin has the
\* quantile boundaries, a non-last bin of min >= max having its max replaced
\* by the next sorted value, and a non-last bin then has min < max exactly
\* when the sorted value after its end index is above its min.
C20_RepairedExactlyWhenNextIsGreater ==
    RebinDone
        => \A i \in 0..(Len(ambient_bins) - 1) :
              /\ QuantileBoundaries(i)
              /\ i < Len(ambient_bins) - 1
                   => (ambient_bins[i + 1].min_value < ambient_bins[i + 1].max_value
                         <=> SortedAt(lastOp.ambients, EndIndex(i) + 1)
                                > ambient_bins[i + 1].min_value)

\* C20 witness: a rebin left a non-last bin with min = max although it
\* replaced its max and the history holds a greater value, and repaired
\* no bin to min < max
C20_Witness ==
    /\ RebinDone
    /\ \E i \in 0..(Len(ambient_bins) - 2) :
          /\ ambient_bins[i + 1].min_value = ambient_bins[i + 1].max_value
          /\ \E j \in 1..Len(lastOp.ambients) :
                lastOp.ambients[j] > ambient_bins[i + 1].min_value
    /\ \E i \in 0..(Len(ambient_bins) - 2) :
          /\ SortedAt(lastOp.ambients, StartIndex(i)) = SortedAt(lastOp.ambients, EndIndex(i))
          /\ ambient_bins[i + 1].min_value < ambient_bins[i + 1].max_value

\* the step is a predict, or a train that stores nothing
StoresNothing ==
    \/ lastOp'.op = "predict"
    \/ lastOp'.op = "train" /\ lastOp'.outcome # "updated"

\* C21: a train rejected as an outlier leaves the last sample as it was: the
\* observation is still more than 80 or 1200 away from it, it stays so over
\* every predict and every train that stores nothing, and a train of a
\* manual adjustment of the same brightness and ambient value is rejected
\* again meanwhile.
C21_RejectedAgainOnRetry ==
    [][/\ (lastOp'.op = "train" /\ lastOp'.outcome = "outlier")
            => FarFromLastSample(ambient_bins', lastOp'.data_point)
       /\ StoresNothing
            => \A d \in ManualPoints :
                  FarFromLastSample(ambient_bins, d)
                     => /\ FarFromLastSample(ambient_bins', d)
                        /\ (lastOp'.op = "train"
                              /\ lastOp'.data_point.is_manual_adjustment
                              /\ lastOp'.data_point.screen_brightness = d.screen_brightness
                              /\ lastOp'.data_point.ambient_light = d.ambient_light)
                             => lastOp'.outcome = "outlier"]_vars

\* C21 witness: a train rejected as an outlier right after a rejected train
\* of the same brightness and ambient value, with an ambient value that a
\* bin matches and a timestamp later than that of every stored sample
C21_Witness ==
    /\ lastOp.op = "train"
    /\ lastOp.retry
    /\ lastOp.outcome = "outlier"
    /\ find_bin(ambient_bins, lastOp.data_point.ambient_light) # 0
    /\ \A k \in 1..Len(ambient_bins) : \A i \in 1..Len(ambient_bins[k].points) :
          ambient_bins[k].points[i].timestamp < lastOp.data_point.timestamp

\* C22: adapt_bins, whether or not it has enough values, changes at most the
\* boundaries of the bins: their number, every bin's samples and
\* total_weight and the smoothing window stay as they are, so that a sample
\* can be left in a bin whose new range does not hold its ambient value.
C22_RebinKeepsContents ==
    [][lastOp'.op = "adapt_bins"
         => /\ Len(ambient_bins') = Len(ambient_bins)
            /\ Contents(ambient_bins') = Contents(ambient_bins)
            /\ last_predictions' = last_predictions]_vars

\* C22 witness: the second call of a run, an adapt_bins, moved the first bin
\* to [1200, 1200]; the bin still holds the sample the first call stored in
\* it, for an ambient value below 1200
C22_Witness ==
    /\ lastOp.op = "adapt_bins"
    /\ remaining = MaxOps - 2
    /\ Len(lastOp.ambients) >= 2 * Len(ambient_bins)
    /\ ambient_bins[1].points # <<>>
    /\ ambient_bins[1].min_value = 1200
    /\ ambient_bins[1].max_value = 1200

\* C23: a predict that returns None, because no bin matches the ambient value
\* or no bin has data, leaves the bins, the smoothing window and the
\* constructor's settings unchanged; and no predict, whatever it returns,
\* changes the boundaries, samples or total_weight of a bin.
C23_PredictKeepsBins ==
    [][lastOp'.op = "predict"
         => /\ ambient_bins' = ambient_bins
            /\ args' = args
            /\ lastOp'.ret = None => last_predictions' = last_predictions]_vars

\* C23 witness: a predict returned None for an ambient value that no bin
\* matches, on a model with samples and values in its smoothing window
C23_Witness ==
    /\ lastOp.op = "predict"
    /\ lastOp.ret = None
    /\ find_bin(ambient_bins, lastOp.ambient_light) = 0
    /\ last_predictions # <<>>
    /\ \E k \in 1..Len(ambient_bins) : ambient_bins[k].points # <<>>

====
